---- MODULE Spec2Model ----
(***************************************************************************)
(* A model of the chess coach: the game session (game_loop.py), the        *)
(* post-game analysis (analyzer.py, driven by AnalysisWorker in            *)
(* app_gui.py), the move classification (engine_manager.py), the           *)
(* GameReport views (analyzer.py), the main window's use of the engine     *)
(* process (app_gui.py) and the coaching texts (coach_llm.py).             *)
(*                                                                         *)
(* The rules authority (python-chess) and the search engine (Stockfish)    *)
(* are external: a board is the sequence of moves pushed on it plus the    *)
(* termination status the rules authority reports for it, and every engine *)
(* reply is a nondeterministic choice.                                     *)
(*                                                                         *)
(* Numbers: evaluations are centipawns; the code holds them as floats with *)
(* integral values, here integers.  accuracy_percentage has one decimal:   *)
(* it is held in tenths of a percent (1000 is 100.0).                      *)
(***************************************************************************)
EXTENDS Integers, Sequences, FiniteSets, TLC

VARIABLES
    gl,       \* the GameLoop object, with the engine's board it plays on
    ret,      \* the last GameLoop call: its name, its argument, the value returned
    worker,   \* AnalysisWorker.run and the analyse_game frame it runs
    report,   \* the GameReport (NoReport while there is none)
    signals,  \* what the worker emitted and what the main window did with it
    query,    \* the last call on a GameReport or MoveEvaluation, and its result
    app,      \* the main window: its timers and threads, and the engine process
    coach     \* the ChessCoach: its backend, and whether Ollama was started

vars == <<gl, ret, worker, report, signals, query, app, coach>>

-----------------------------------------------------------------------------
(* Bounds of the model *)

\* longest game played (plies)
MaxPly == 3
\* longest move history handed to the analysis
MaxHist == 2
\* longest evaluated_moves list of a GameReport built directly
MaxMoves == 3
\* largest |score_delta| classified, beyond the last threshold
MaxDelta == 201

-----------------------------------------------------------------------------
(* The rules authority: chess.Board *)

Colors == {"white", "black"}

Other(c) == IF c = "white" THEN "black" ELSE "white"

WhiteMoves == {"e2e4", "g1f3"}
BlackMoves == {"e7e5", "g8f6"}

\* a well-formed move that is never legal, and a string that is no move
IllegalUci == "e2e5"
MalformedUci == "zz"

\* termination the rules authority reports for a position: none, one with no
\* legal move left, one with legal moves left
Statuses == {"ongoing", "checkmate", "insufficient_material"}

\* chess.Board()
StartBoard == [stack |-> <<>>, status |-> "ongoing"]

\* board.turn
Turn(board) == IF Len(board.stack) % 2 = 0 THEN "white" ELSE "black"

\* board.is_game_over()
IsGameOver(board) == board.status # "ongoing"

\* board.legal_moves
LegalMoves(board) ==
    IF board.status = "checkmate" THEN {}
    ELSE IF Turn(board) = "white" THEN WhiteMoves ELSE BlackMoves

\* board.push(move); the status of the new position is the rules authority's
Push(board, uci, status) == [stack |-> Append(board.stack, uci), status |-> status]

\* board.fen(): placement, side to move and full-move number; the
\* termination status is not part of it
Fen(board) ==
    [placement |-> board.stack,
     turn      |-> Turn(board),
     fullmove  |-> (Len(board.stack) \div 2) + 1]

\* board.san(move)
San(uci) ==
    CASE uci = "e2e4" -> "e4"
      [] uci = "g1f3" -> "Nf3"
      [] uci = "e7e5" -> "e5"
      [] uci = "g8f6" -> "Nf6"
      [] OTHER -> "?"

\* chess.Move.from_uci raises ValueError on a string that is no move
IsUci(uci) == uci # MalformedUci

-----------------------------------------------------------------------------
(* game_loop.py: MoveRecord and GameLoop *)

\* GameLoop.__init__
NewGameLoop(player_color) ==
    [board        |-> StartBoard,
     player_color |-> player_color,
     move_history |-> <<>>,
     move_counter |-> 1,
     started      |-> FALSE]

\* GameLoop.new_game
new_game(g) ==
    [g EXCEPT !.board = StartBoard,
              !.move_history = <<>>,
              !.move_counter = 1,
              !.started = TRUE]

\* the turn never asked for
is_player_turn_always(g) == TRUE

\* GameLoop.is_player_turn
is_player_turn(g) == Turn(g.board) = g.player_color

\* GameLoop.is_over
is_over(g) == IsGameOver(g.board)

\* GameLoop.get_outcome_description: the board's outcome, read when called
get_outcome_description(g) ==
    IF g.board.status = "ongoing" THEN "Game in progress"
    ELSE IF g.board.status = "insufficient_material"
         THEN "Draw - Insufficient Material"
         ELSE (IF Turn(g.board) = "white" THEN "Black" ELSE "White")
                  \o " wins - Checkmate"

\* fen_after taken from the FEN read before the push
FenBeforePush(board) ==
    Fen([board EXCEPT !.stack = SubSeq(@, 1, Len(@) - 1)])

\* the FEN stored as fen_after: engine.get_fen() read after the push
FenAfterPush(board) == Fen(board)

\* GameLoop._record_move
record_move(g, played_by, san, uci, fen_before, fen_after) ==
    [g EXCEPT !.move_history = Append(@,
        [move_number |-> g.move_counter,
         played_by   |-> played_by,
         san         |-> san,
         uci         |-> uci,
         fen_before  |-> fen_before,
         fen_after   |-> fen_after])]

\* GameLoop._should_increment_counter
should_increment_counter(g) == Len(g.move_history) % 2 = 0

\* the move pushed without asking the rules authority whether it is legal
PlayerMoveUnchecked(g, uci) ==
    /\ g.started
    /\ is_player_turn(g)
    /\ IsUci(uci)

\* whether apply_player_move gets as far as recording the move
PlayerMoveAccepted(g, uci) ==
    /\ g.started
    /\ is_player_turn(g)
    /\ IsUci(uci)
    /\ uci \in LegalMoves(g.board)

\* GameLoop.apply_player_move: the session after the call
apply_player_move(g, uci, status) ==
    IF ~PlayerMoveAccepted(g, uci) THEN g
    ELSE LET fen_before == Fen(g.board)
             san        == San(uci)
             pushed     == [g EXCEPT !.board = Push(g.board, uci, status)]
         IN  record_move(pushed, g.player_color, san, uci,
                         fen_before, FenAfterPush(pushed.board))

\* the engine's reply to play(): a move, or none
NoMove == "none"

\* whether apply_bot_move gets as far as recording the move
BotMoveAccepted(g, move) ==
    /\ g.started
    /\ ~is_player_turn(g)
    /\ ~is_over(g)
    /\ move # NoMove

\* GameLoop.apply_bot_move: the session after the call
apply_bot_move(g, move, status) ==
    IF ~BotMoveAccepted(g, move) THEN g
    ELSE LET fen_before == Fen(g.board)
             san        == San(move)
             pushed     == [g EXCEPT !.board = Push(g.board, move, status)]
             recorded   == record_move(pushed, Other(g.player_color), san, move,
                                       fen_before, FenAfterPush(pushed.board))
         IN  IF should_increment_counter(recorded)
             THEN [recorded EXCEPT !.move_counter = @ + 1]
             ELSE recorded

-----------------------------------------------------------------------------
(* engine_manager.py: MoveEvaluation *)

Abs(x) == IF x < 0 THEN -x ELSE x

\* the thresholds taken inclusively: a loss of exactly 10, 50, 100 or 200
\* stays in the tier below
classification_inclusive(score_delta) ==
    LET loss == Abs(score_delta)
    IN  IF loss <= 10 THEN "Best"
        ELSE IF loss <= 50 THEN "Good"
        ELSE IF loss <= 100 THEN "Inaccuracy"
        ELSE IF loss <= 200 THEN "Mistake"
        ELSE "Blunder"

\* MoveEvaluation.classification
classification(score_delta) ==
    LET loss == Abs(score_delta)
    IN  IF loss < 10 THEN "Best"
        ELSE IF loss < 50 THEN "Good"
        ELSE IF loss < 100 THEN "Inaccuracy"
        ELSE IF loss < 200 THEN "Mistake"
        ELSE "Blunder"

-----------------------------------------------------------------------------
(* analyzer.py: GameReport *)

\* GameReport.player_moves
player_moves(r) ==
    SelectSeq(r.evaluated_moves, LAMBDA m : m.played_by = r.player_color)

\* the tier counts taken from both sides' moves
AllMoves(r) == r.evaluated_moves

\* the moves the tier counts are taken from
TierMoves(r) == player_moves(r)

\* GameReport.blunders
blunders(r) ==
    SelectSeq(TierMoves(r), LAMBDA m : classification(m.score_delta) = "Blunder")

\* GameReport.mistakes
mistakes(r) ==
    SelectSeq(TierMoves(r), LAMBDA m : classification(m.score_delta) = "Mistake")

\* the Good moves counted as inaccuracies too
inaccuracies_with_good(r) ==
    SelectSeq(TierMoves(r),
              LAMBDA m : classification(m.score_delta) \in {"Inaccuracy", "Good"})

\* GameReport.inaccuracies
inaccuracies(r) ==
    SelectSeq(TierMoves(r), LAMBDA m : classification(m.score_delta) = "Inaccuracy")

\* round(num / den * 100, 1), in tenths of a percent.  The nearest tenth; a
\* tie (a digit 5 followed by nothing) needs 16 to divide den, which no list
\* of this model reaches.
RoundedPercent(num, den) == (2000 * num + den) \div (2 * den)

\* only the Best moves counted as accurate
BestMoves(r) ==
    SelectSeq(player_moves(r), LAMBDA m : classification(m.score_delta) = "Best")

\* the moves accuracy_percentage counts as accurate
AccurateMoves(r) ==
    SelectSeq(player_moves(r),
              LAMBDA m : classification(m.score_delta) \in {"Best", "Good"})

\* no player move taken as nothing done wrong
accuracy_vacuous(r) ==
    IF player_moves(r) = <<>> THEN 1000
    ELSE RoundedPercent(Len(AccurateMoves(r)), Len(player_moves(r)))

\* GameReport.accuracy_percentage
accuracy_percentage(r) ==
    IF player_moves(r) = <<>> THEN 0
    ELSE RoundedPercent(Len(AccurateMoves(r)), Len(player_moves(r)))

\* GameReport.summary_stats; the accuracy is the text f"{accuracy}%"
summary_stats(r) ==
    [total_player_moves |-> Len(player_moves(r)),
     blunders           |-> Len(blunders(r)),
     mistakes           |-> Len(mistakes(r)),
     inaccuracies       |-> Len(inaccuracies(r)),
     accuracy           |-> <<accuracy_percentage(r), "%">>]

\* where sorted(..., reverse=True) puts e in the list s it has sorted so far:
\* behind every element whose key is not smaller
InsertByLoss(s, e) ==
    LET n == Cardinality({i \in 1..Len(s) :
                            Abs(s[i].score_delta) >= Abs(e.score_delta)})
    IN  SubSeq(s, 1, n) \o <<e>> \o SubSeq(s, n + 1, Len(s))

\* an ascending sort put in reverse afterwards: equal keys come out in
\* reverse of their original order
RECURSIVE SortedThenReversed(_)
SortedThenReversed(s) ==
    IF s = <<>> THEN <<>>
    ELSE LET rest == SortedThenReversed(SubSeq(s, 1, Len(s) - 1))
             e    == s[Len(s)]
             n    == Cardinality({i \in 1..Len(rest) :
                                    Abs(rest[i].score_delta) > Abs(e.score_delta)})
         IN  SubSeq(rest, 1, n) \o <<e>> \o SubSeq(rest, n + 1, Len(rest))

\* sorted(bad_moves, key=lambda m: abs(m.score_delta), reverse=True)
RECURSIVE SortedByLoss(_)
SortedByLoss(s) ==
    IF s = <<>> THEN <<>>
    ELSE InsertByLoss(SortedByLoss(SubSeq(s, 1, Len(s) - 1)), s[Len(s)])

\* the Python slice s[:n]
SliceTo(s, n) ==
    IF n >= 0 THEN SubSeq(s, 1, IF n < Len(s) THEN n ELSE Len(s))
    ELSE SubSeq(s, 1, IF Len(s) + n > 0 THEN Len(s) + n ELSE 0)

\* GameReport.get_critical_moments
get_critical_moments(r, top_n) ==
    LET bad_moves ==
            SelectSeq(player_moves(r),
                      LAMBDA m : classification(m.score_delta) \in {"Mistake", "Blunder"})
    IN  SliceTo(SortedByLoss(bad_moves), top_n)

-----------------------------------------------------------------------------
(* analyzer.py: Analyzer *)

\* the centipawn scores the engine reports
CpScores == {0, 100}

\* the engine's replies to analyse(): a score in centipawns, a forced mate,
\* or no reply (the engine is not running, or its process died)
AnalyseReplies ==
    {[kind |-> "cp", value |-> v] : v \in CpScores}
        \cup {[kind |-> "mate", value |-> -1], [kind |-> "error", value |-> 0]}

\* the engine's replies to play(): a move, no move, or no reply
PlayReplies(fen) ==
    {[kind |-> "move", value |-> IF fen.turn = "white" THEN "g1f3" ELSE "g8f6"],
     [kind |-> "move", value |-> NoMove],
     [kind |-> "error", value |-> NoMove]}

\* a failed evaluation taken as an even position
evaluate_fen_defaulting(reply) ==
    IF reply.kind = "mate"
    THEN [raised |-> FALSE, value |-> IF reply.value > 0 THEN 10000 ELSE -10000]
    ELSE [raised |-> FALSE, value |-> reply.value]

\* Analyzer._evaluate_fen: the White-perspective evaluation, unless the
\* engine call raises
evaluate_fen(reply) ==
    IF reply.kind = "error" THEN [raised |-> TRUE, value |-> 0]
    ELSE IF reply.kind = "mate"
    THEN [raised |-> FALSE, value |-> IF reply.value > 0 THEN 10000 ELSE -10000]
    ELSE [raised |-> FALSE, value |-> reply.value]

\* Analyzer._best_move_for_fen: the SAN of the engine's move, or None
best_move_for_fen(reply) ==
    IF reply.kind = "error" THEN [raised |-> TRUE, value |-> "None"]
    ELSE IF reply.value # NoMove THEN [raised |-> FALSE, value |-> San(reply.value)]
    ELSE [raised |-> FALSE, value |-> "None"]

\* the delta taken from White's side whoever moved
ScoreDeltaWhitePov(played_by, eval_before, eval_after) == eval_after - eval_before

\* the delta of analyse_game, from the side of the mover
ScoreDelta(played_by, eval_before, eval_after) ==
    IF played_by = "white" THEN eval_after - eval_before
    ELSE eval_before - eval_after

\* the MoveEvaluation analyse_game builds for a record
NewMoveEvaluation(record, eval_before, eval_after, best_move) ==
    [move_san      |-> record.san,
     fen_before    |-> record.fen_before,
     fen_after     |-> record.fen_after,
     eval_before   |-> eval_before,
     eval_after    |-> eval_after,
     best_move_san |-> IF best_move = "None" THEN "?" ELSE best_move,
     score_delta   |-> ScoreDelta(record.played_by, eval_before, eval_after),
     played_by     |-> record.played_by]

\* the evaluation put in front of the list
PrependEvaluation(evaluated_moves, e) == <<e>> \o evaluated_moves

\* evaluated_moves.append(...)
AddEvaluation(evaluated_moves, e) == Append(evaluated_moves, e)

\* the GameReport analyse_game returns
NewGameReport(evaluated_moves, move_history, player_color) ==
    [evaluated_moves |-> evaluated_moves,
     total_moves     |-> Len(move_history),
     player_color    |-> player_color]

-----------------------------------------------------------------------------
(* The values of the variables that an operation does not use *)

NoReport == [evaluated_moves |-> <<>>, total_moves |-> -1, player_color |-> "none"]

IdleWorker ==
    [pc              |-> "idle",
     move_history    |-> <<>>,
     player_color    |-> "none",
     evaluated_moves |-> <<>>,
     engine_calls    |-> 0,
     engine_failed   |-> FALSE,
     outcome         |-> "none"]

\* the signals emitted, the panel's state, the quit requests made to the
\* analysis thread and the slot calls queued on the main thread
NoSignals ==
    [finished |-> 0, error |-> 0, loading |-> FALSE, stats |-> <<>>,
     quit |-> 0, pending |-> <<>>]

NoQuery == [op |-> "none"]

NoCall == [op |-> "none", arg |-> "none", value |-> "None"]

\* ChessCoach.__init__: the OpenAI backend needs the name and a key
NewChessCoach(backend, openai_api_key) ==
    [llm        |-> IF backend = "openai" /\ openai_api_key # "" THEN "OpenAIBackend"
                    ELSE "OllamaBackend",
     player_elo |-> 1000,
     ollama_start_attempted |-> FALSE]

\* the main window with nothing scheduled and the engine process at rest
NoApp ==
    [main |-> "idle", timers |-> 0, evals_waiting |-> 0, evals_busy |-> 0,
     workers |-> <<>>, in_flight |-> 0]

-----------------------------------------------------------------------------
(* The game session *)

PlayerInputs == WhiteMoves \cup BlackMoves \cup {IllegalUci, MalformedUci}

Init ==
    /\ gl \in {NewGameLoop(c) : c \in Colors}
    /\ ret = NoCall
    /\ worker = IdleWorker
    /\ report = NoReport
    /\ signals = NoSignals
    /\ app = NoApp
    /\ coach = NewChessCoach("ollama", "")
    /\ query = NoQuery

NewGame ==
    /\ gl' = new_game(gl)
    /\ ret' = [op |-> "new_game", arg |-> "none", value |-> "None"]
    /\ UNCHANGED <<worker, report, signals, query, app, coach>>

ApplyPlayerMove ==
    \E uci \in PlayerInputs, status \in Statuses :
        /\ Len(gl.move_history) < MaxPly
        /\ gl' = apply_player_move(gl, uci, status)
        /\ ret' = [op    |-> "apply_player_move",
                   arg   |-> uci,
                   value |-> PlayerMoveAccepted(gl, uci)]
        /\ UNCHANGED <<worker, report, signals, query, app, coach>>

ApplyBotMove ==
    \E move \in LegalMoves(gl.board) \cup {NoMove}, status \in Statuses :
        /\ Len(gl.move_history) < MaxPly
        /\ gl' = apply_bot_move(gl, move, status)
        /\ ret' = [op    |-> "apply_bot_move",
                   arg   |-> move,
                   value |-> IF BotMoveAccepted(gl, move) THEN San(move) ELSE "None"]
        /\ UNCHANGED <<worker, report, signals, query, app, coach>>

Next == NewGame \/ ApplyPlayerMove \/ ApplyBotMove

Spec == Init /\ [][Next]_vars

-----------------------------------------------------------------------------
(* MoveEvaluation.classification on every score_delta up to MaxDelta *)

InitClassify ==
    /\ gl = NewGameLoop("white")
    /\ ret = NoCall
    /\ worker = IdleWorker
    /\ report = NoReport
    /\ signals = NoSignals
    /\ app = NoApp
    /\ coach = NewChessCoach("ollama", "")
    /\ query \in {[op |-> "MoveEvaluation", score_delta |-> d] : d \in -MaxDelta..MaxDelta}

Classification ==
    /\ query.op = "MoveEvaluation"
    /\ query' = [op          |-> "classification",
                 score_delta |-> query.score_delta,
                 result      |-> classification(query.score_delta)]
    /\ UNCHANGED <<gl, ret, worker, report, signals, app, coach>>

NextClassify == Classification

SpecClassify == InitClassify /\ [][NextClassify]_vars

-----------------------------------------------------------------------------
(* The views of a GameReport, on every report of up to MaxMoves moves *)

\* the score deltas of the reports: a Blunder, a Mistake, a gain of the same
\* size as that loss, a Best, a Good and an Inaccuracy
ReportDeltas == {-250, -150, 150, 5, 30, -75}

\* a MoveEvaluation as the tests build it (make_eval), the i-th of its game
make_eval(i, delta, played_by) ==
    [move_san      |-> "e4",
     fen_before    |-> i - 1,
     fen_after     |-> i,
     eval_before   |-> 0,
     eval_after    |-> delta,
     best_move_san |-> "d4",
     score_delta   |-> delta,
     played_by     |-> played_by]

\* the evaluated_moves lists of n moves
RECURSIVE EvaluatedLists(_)
EvaluatedLists(n) ==
    IF n = 0 THEN {<<>>}
    ELSE {Append(x[1], make_eval(n, x[2], x[3])) :
              x \in EvaluatedLists(n - 1) \X ReportDeltas \X Colors}

\* the values of top_n
TopNs == -2..(MaxMoves + 1)

InitReport ==
    /\ gl = NewGameLoop("white")
    /\ ret = NoCall
    /\ worker = IdleWorker
    /\ signals = NoSignals
    /\ app = NoApp
    /\ coach = NewChessCoach("ollama", "")
    /\ query = NoQuery
    /\ \E n \in 0..MaxMoves, c \in Colors :
           report \in {[evaluated_moves |-> ms, total_moves |-> n, player_color |-> c] :
                           ms \in EvaluatedLists(n)}

AccuracyPercentage ==
    /\ query' = [op |-> "accuracy_percentage", result |-> accuracy_percentage(report)]
    /\ UNCHANGED <<gl, ret, worker, report, signals, app, coach>>

SummaryStats ==
    /\ query' = [op |-> "summary_stats", result |-> summary_stats(report)]
    /\ UNCHANGED <<gl, ret, worker, report, signals, app, coach>>

GetCriticalMoments ==
    \E top_n \in TopNs :
        /\ query' = [op     |-> "get_critical_moments",
                     top_n  |-> top_n,
                     result |-> get_critical_moments(report, top_n)]
        /\ UNCHANGED <<gl, ret, worker, report, signals, app, coach>>

NextReport == AccuracyPercentage \/ SummaryStats \/ GetCriticalMoments

SpecReport == InitReport /\ [][NextReport]_vars

-----------------------------------------------------------------------------
(* The post-game analysis of a game that has ended *)

\* the next call of a game: the player's or the bot's, by the side to move
Play(g, uci, status) ==
    IF is_player_turn(g) THEN apply_player_move(g, uci, status)
    ELSE apply_bot_move(g, uci, status)

\* the sessions in which k moves were played and the game goes on
RECURSIVE OngoingGames(_)
OngoingGames(k) ==
    IF k = 0 THEN {new_game(NewGameLoop(c)) : c \in Colors}
    ELSE {Play(g, uci, "ongoing") : <<g, uci>> \in
              {<<g, uci>> \in OngoingGames(k - 1) \X (WhiteMoves \cup BlackMoves) :
                   uci \in LegalMoves(g.board)}}

\* the sessions whose game ended with move k
EndedGames(k) ==
    {Play(x[1], x[2], x[3]) : x \in
         {x \in OngoingGames(k - 1) \X (WhiteMoves \cup BlackMoves)
                    \X (Statuses \ {"ongoing"}) :
              x[2] \in LegalMoves(x[1].board)}}

InitAnalyse ==
    /\ gl \in UNION {EndedGames(k) : k \in 1..MaxHist}
    /\ ret = NoCall
    /\ worker = IdleWorker
    /\ report = NoReport
    /\ signals = NoSignals
    /\ app = NoApp
    /\ coach = NewChessCoach("ollama", "")
    /\ query = NoQuery

\* ChessCoachApp._run_post_game_analysis
RunPostGameAnalysis ==
    /\ worker.pc = "idle"
    /\ gl.move_history # <<>>
    /\ signals' = [signals EXCEPT !.loading = TRUE]
    /\ worker' = [worker EXCEPT !.pc = "started"]
    /\ query' = [op           |-> "_run_post_game_analysis",
                 move_history |-> gl.move_history,
                 outcome      |-> get_outcome_description(gl)]
    /\ UNCHANGED <<gl, ret, report, app, coach>>

\* ChessCoachApp._start_new_game, on the main thread after the analysis
\* thread was started and before its run has read the outcome
StartNewGame ==
    /\ worker.pc \in {"started", "analyse", "coach"}
    /\ gl' = new_game(gl)
    /\ UNCHANGED <<ret, worker, report, signals, query, app, coach>>

\* AnalysisWorker.run, up to the call of analyse_game
WorkerRun ==
    /\ worker.pc = "started"
    /\ worker' = [worker EXCEPT !.pc = "analyse",
                                !.move_history = gl.move_history,
                                !.player_color = gl.player_color,
                                !.evaluated_moves = <<>>]
    /\ UNCHANGED <<gl, ret, report, signals, query, app, coach>>

\* one turn of the loop of analyse_game: the two evaluations and the best
\* move of the next record.  A call that raises ends analyse_game and run,
\* which emits error.
AnalyseRecord ==
    /\ worker.pc = "analyse"
    /\ Len(worker.evaluated_moves) < Len(worker.move_history)
    /\ LET record == worker.move_history[Len(worker.evaluated_moves) + 1]
       IN  \E rb \in AnalyseReplies, ra \in AnalyseReplies,
              rp \in PlayReplies(record.fen_before) :
               LET eval_before == evaluate_fen(rb)
                   eval_after  == evaluate_fen(ra)
                   best_move   == best_move_for_fen(rp)
                   issued      == IF eval_before.raised THEN 1
                                  ELSE IF eval_after.raised THEN 2 ELSE 3
                   failed      == \/ rb.kind = "error"
                                  \/ issued >= 2 /\ ra.kind = "error"
                                  \/ issued >= 3 /\ rp.kind = "error"
                   raised      == \/ eval_before.raised
                                  \/ eval_after.raised
                                  \/ best_move.raised
               IN  /\ worker' =
                          [worker EXCEPT
                              !.engine_calls = @ + issued,
                              !.engine_failed = @ \/ failed,
                              !.pc = IF raised THEN "error" ELSE "analyse",
                              !.evaluated_moves =
                                  IF raised THEN <<>>
                                  ELSE AddEvaluation(@,
                                           NewMoveEvaluation(record, eval_before.value,
                                               eval_after.value, best_move.value))]
                   /\ signals' = [signals EXCEPT
                                     !.error = IF raised THEN @ + 1 ELSE @,
                                     !.pending = IF raised
                                                 THEN Append(@, "_on_analysis_error")
                                                 ELSE @]
    /\ UNCHANGED <<gl, ret, report, query, app, coach>>

\* the return of analyse_game
AnalyseReturn ==
    /\ worker.pc = "analyse"
    /\ Len(worker.evaluated_moves) >= Len(worker.move_history)
    /\ report' = NewGameReport(worker.evaluated_moves, worker.move_history,
                               worker.player_color)
    /\ worker' = [worker EXCEPT !.pc = "coach"]
    /\ UNCHANGED <<gl, ret, signals, query, app, coach>>

\* AnalysisWorker.run after the coach's texts: the outcome is read from the
\* session for the summary and finished is emitted; its two connected
\* slots are queued on the main thread in the order of their connection
EmitFinished ==
    /\ worker.pc = "coach"
    /\ worker' = [worker EXCEPT !.pc = "done",
                                !.outcome = get_outcome_description(gl)]
    /\ signals' = [signals EXCEPT
                      !.finished = @ + 1,
                      !.pending = @ \o <<"_on_analysis_done", "quit">>]
    /\ UNCHANGED <<gl, ret, report, query, app, coach>>

\* ChessCoachApp._on_analysis_done
OnAnalysisDone ==
    /\ signals.pending # <<>>
    /\ Head(signals.pending) = "_on_analysis_done"
    /\ signals' = [signals EXCEPT !.stats = summary_stats(report),
                                  !.loading = FALSE,
                                  !.pending = Tail(@)]
    /\ UNCHANGED <<gl, ret, worker, report, query, app, coach>>

\* QThread.quit, the second slot connected to finished
ThreadQuit ==
    /\ signals.pending # <<>>
    /\ Head(signals.pending) = "quit"
    /\ signals' = [signals EXCEPT !.quit = @ + 1, !.pending = Tail(@)]
    /\ UNCHANGED <<gl, ret, worker, report, query, app, coach>>

\* ChessCoachApp._on_analysis_error
OnAnalysisError ==
    /\ signals.pending # <<>>
    /\ Head(signals.pending) = "_on_analysis_error"
    /\ signals' = [signals EXCEPT !.loading = FALSE, !.pending = Tail(@)]
    /\ UNCHANGED <<gl, ret, worker, report, query, app, coach>>

NextAnalyse ==
    \/ RunPostGameAnalysis
    \/ StartNewGame
    \/ WorkerRun
    \/ AnalyseRecord
    \/ AnalyseReturn
    \/ EmitFinished
    \/ OnAnalysisDone
    \/ ThreadQuit
    \/ OnAnalysisError

SpecAnalyse == InitAnalyse /\ [][NextAnalyse]_vars

-----------------------------------------------------------------------------
(* app_gui.py: the main window plays a game on the main thread while the   *)
(* eval-bar threads and the analysis workers it started run beside it; all *)
(* of them call the one engine process of the shared EngineManager.  A     *)
(* request is in flight from the call of analyse or play to its return.    *)
(* The live-tip thread makes no engine request and is left out.            *)

\* timers, eval-bar threads and analysis workers alive at once
MaxThreads == 2

\* engine requests analyse_game makes for one record
CallsPerRecord == 3

Activities(a) == a.timers + a.evals_waiting + a.evals_busy + Len(a.workers)

\* _update_eval: one more daemon thread that will call evaluate_position
update_eval(a) == [a EXCEPT !.evals_waiting = @ + 1]

\* _run_post_game_analysis: a new QThread and AnalysisWorker, unless the
\* history is empty; nothing waits for an earlier worker
run_post_game_analysis(a, g) ==
    IF Len(g.move_history) = 0
    THEN a
    ELSE [a EXCEPT !.workers = Append(@, [pc |-> "spawned", todo |-> 0, busy |-> FALSE])]

\* _on_game_over
on_game_over(a, g) == run_post_game_analysis(a, g)

\* the end of _on_player_move after an accepted move
AfterPlayerMove(a, g) ==
    IF is_over(g)
    THEN on_game_over(update_eval(a), g)
    ELSE [update_eval(a) EXCEPT !.timers = @ + 1]

\* the end of _do_bot_move
AfterBotMove(a, g) ==
    IF is_over(g)
    THEN on_game_over(update_eval(a), g)
    ELSE update_eval(a)

RemoveAt(s, i) == SubSeq(s, 1, i - 1) \o SubSeq(s, i + 1, Len(s))

InitApp ==
    /\ gl = new_game(NewGameLoop("white"))
    /\ ret = NoCall
    /\ worker = IdleWorker
    /\ report = NoReport
    /\ signals = NoSignals
    /\ query = NoQuery
    /\ app = NoApp
    /\ coach = NewChessCoach("ollama", "")

\* the New Game button: _start_new_game
AppNewGame ==
    /\ app.main = "idle"
    /\ gl' = new_game(gl)
    /\ UNCHANGED <<ret, worker, report, signals, query, app, coach>>

\* a move made on the board widget: _on_player_move
OnPlayerMove ==
    \E uci \in PlayerInputs, status \in Statuses :
        /\ app.main = "idle"
        /\ Len(gl.move_history) < MaxPly
        /\ ~(is_over(gl) \/ ~is_player_turn(gl))
        /\ PlayerMoveAccepted(gl, uci)
        /\ gl' = apply_player_move(gl, uci, status)
        /\ app' = AfterPlayerMove(app, gl')
        /\ Activities(app') <= MaxThreads
        /\ UNCHANGED <<ret, worker, report, signals, query, coach>>

\* the timer fires _do_bot_move; apply_bot_move sends play to the engine
\* and the main thread waits for the reply
DoBotMovePlay ==
    /\ app.main = "idle"
    /\ app.timers > 0
    /\ Len(gl.move_history) < MaxPly
    /\ gl.started /\ ~is_player_turn(gl) /\ ~is_over(gl)
    /\ app' = [app EXCEPT !.timers = @ - 1, !.main = "play", !.in_flight = @ + 1]
    /\ UNCHANGED <<gl, ret, worker, report, signals, query, coach>>

\* the engine's reply reaches apply_bot_move, and _do_bot_move goes on
DoBotMoveReply ==
    \E move \in LegalMoves(gl.board) \cup {NoMove}, status \in Statuses :
        /\ app.main = "play"
        /\ gl' = apply_bot_move(gl, move, status)
        /\ app' = AfterBotMove([app EXCEPT !.main = "idle", !.in_flight = @ - 1], gl')
        /\ Activities(app') <= MaxThreads
        /\ UNCHANGED <<ret, worker, report, signals, query, coach>>

\* the timer fires _do_bot_move and apply_bot_move returns None at once
DoBotMoveRefused ==
    /\ app.main = "idle"
    /\ app.timers > 0
    /\ ~(gl.started /\ ~is_player_turn(gl) /\ ~is_over(gl))
    /\ app' = AfterBotMove([app EXCEPT !.timers = @ - 1], gl)
    /\ Activities(app') <= MaxThreads
    /\ UNCHANGED <<gl, ret, worker, report, signals, query, coach>>

\* an eval-bar thread calls evaluate_position: analyse is sent
EvalRequest ==
    /\ app.evals_waiting > 0
    /\ app' = [app EXCEPT !.evals_waiting = @ - 1, !.evals_busy = @ + 1,
                          !.in_flight = @ + 1]
    /\ UNCHANGED <<gl, ret, worker, report, signals, query, coach>>

\* analyse returns (or raises) in the eval-bar thread, which ends
EvalReply ==
    /\ app.evals_busy > 0
    /\ app' = [app EXCEPT !.evals_busy = @ - 1, !.in_flight = @ - 1]
    /\ UNCHANGED <<gl, ret, worker, report, signals, query, coach>>

\* the QThread starts AnalysisWorker.run, which reads the history to analyse
AppWorkerRun ==
    \E i \in 1..Len(app.workers) :
        /\ app.workers[i].pc = "spawned"
        /\ app' = [app EXCEPT !.workers[i] =
                       [pc |-> "running",
                        todo |-> CallsPerRecord * Len(gl.move_history),
                        busy |-> FALSE]]
        /\ UNCHANGED <<gl, ret, worker, report, signals, query, coach>>

\* analyse_game sends its next request
AppWorkerRequest ==
    \E i \in 1..Len(app.workers) :
        /\ app.workers[i].pc = "running"
        /\ ~app.workers[i].busy
        /\ app.workers[i].todo > 0
        /\ app' = [app EXCEPT !.workers[i].busy = TRUE,
                              !.workers[i].todo = @ - 1,
                              !.in_flight = @ + 1]
        /\ UNCHANGED <<gl, ret, worker, report, signals, query, coach>>

\* the request returns; when it raises, run emits error and ends
AppWorkerReply ==
    \E i \in 1..Len(app.workers), raised \in BOOLEAN :
        /\ app.workers[i].busy
        /\ app' = [app EXCEPT !.workers[i].busy = FALSE,
                              !.workers[i].todo = IF raised THEN 0 ELSE @,
                              !.in_flight = @ - 1]
        /\ UNCHANGED <<gl, ret, worker, report, signals, query, coach>>

\* run emits finished or error and the worker makes no further request
AppWorkerEnd ==
    \E i \in 1..Len(app.workers) :
        /\ app.workers[i].pc = "running"
        /\ ~app.workers[i].busy
        /\ app.workers[i].todo = 0
        /\ app' = [app EXCEPT !.workers = RemoveAt(@, i)]
        /\ UNCHANGED <<gl, ret, worker, report, signals, query, coach>>

NextApp ==
    \/ AppNewGame
    \/ OnPlayerMove
    \/ DoBotMovePlay
    \/ DoBotMoveReply
    \/ DoBotMoveRefused
    \/ EvalRequest
    \/ EvalReply
    \/ AppWorkerRun
    \/ AppWorkerRequest
    \/ AppWorkerReply
    \/ AppWorkerEnd

SpecApp == InitApp /\ [][NextApp]_vars

-----------------------------------------------------------------------------
(* analyzer.py: Analyzer.infer_game_phase.  What it reads of a FEN is the  *)
(* piece placement; a placement is held as its piece counts by kind.       *)

\* the pieces of the starting position
MaxPieces == 32

\* queens on the board, of both colours
MaxQueens == 2

\* the placements of the positions of a game: both kings, at most the
\* starting number of pieces
Placements ==
    {pl \in [kings : {2}, queens : 0..MaxQueens, others : 0..(MaxPieces - 2)] :
        pl.kings + pl.queens + pl.others <= MaxPieces}

\* len(board.piece_map())
PieceCount(placement) == placement.kings + placement.queens + placement.others

\* the queens of both colours
QueenCount(placement) == placement.queens

\* the no-queens test made before the piece-count test
infer_game_phase_queens_first(placement) ==
    IF QueenCount(placement) = 0 \/ PieceCount(placement) <= 12 THEN "Endgame"
    ELSE IF PieceCount(placement) >= 28 THEN "Opening"
    ELSE "Middlegame"

\* the opening threshold exclusive
infer_game_phase_exclusive(placement) ==
    LET piece_count == PieceCount(placement)
        queens      == QueenCount(placement)
    IN  IF piece_count > 28 THEN "Opening"
        ELSE IF piece_count <= 12 \/ queens = 0 THEN "Endgame"
        ELSE "Middlegame"

infer_game_phase(placement) ==
    LET piece_count == PieceCount(placement)
        queens      == QueenCount(placement)
    IN  IF piece_count >= 28 THEN "Opening"
        ELSE IF piece_count <= 12 \/ queens = 0 THEN "Endgame"
        ELSE "Middlegame"

InitPhase ==
    /\ gl = NewGameLoop("white")
    /\ ret = NoCall
    /\ worker = IdleWorker
    /\ report = NoReport
    /\ signals = NoSignals
    /\ app = NoApp
    /\ coach = NewChessCoach("ollama", "")
    /\ query \in {[op |-> "Analyzer", fen |-> pl] : pl \in Placements}

InferGamePhase ==
    /\ query.op = "Analyzer"
    /\ query' = [op     |-> "infer_game_phase",
                 fen    |-> query.fen,
                 result |-> infer_game_phase(query.fen)]
    /\ UNCHANGED <<gl, ret, worker, report, signals, app, coach>>

NextPhase == InferGamePhase

SpecPhase == InitPhase /\ [][NextPhase]_vars

-----------------------------------------------------------------------------
(* coach_llm.py: the text-generation backends, RuleBasedFallback and       *)
(* ChessCoach.  A text is a string.  A call returns [raised, value]; None  *)
(* is [is_none |-> TRUE].  The backend's answer is the environment's.      *)

None == [is_none |-> TRUE, text |-> ""]

Text(t) == [is_none |-> FALSE, text |-> t]

Returned(v) == [raised |-> FALSE, value |-> v]

Raised(e) == [raised |-> TRUE, value |-> Text(e)]

\* the texts a backend answers with, as received
RawTexts == {"", " ", "Well played.", " Watch your queen. "}

\* str.strip on the texts above
strip(t) ==
    CASE t = " " -> ""
      [] t = " Watch your queen. " -> "Watch your queen."
      [] OTHER -> t

\* what requests.post, raise_for_status and json() come to: an exception, or
\* a JSON body with a response text, without the key, or with null for it
OllamaReplies ==
    {[kind |-> k, response |-> ""] :
        k \in {"ConnectionError", "Timeout", "HTTPError", "JSONDecodeError",
               "no_response_key", "null_response"}}
    \cup {[kind |-> "ok", response |-> t] : t \in RawTexts}

\* what the OpenAI client comes to: an exception, a message content, or a
\* message without content
OpenAIReplies ==
    {[kind |-> k, response |-> ""] :
        k \in {"ImportError", "APIError", "null_response"}}
    \cup {[kind |-> "ok", response |-> t] : t \in RawTexts}

Replies(llm) == IF llm = "OpenAIBackend" THEN OpenAIReplies ELSE OllamaReplies

\* the body of the try block of generate, in both backends
generate_try(reply) ==
    CASE reply.kind = "ok"              -> Returned(Text(strip(reply.response)))
      [] reply.kind = "no_response_key" -> Returned(Text(strip("")))
      [] reply.kind = "null_response"   -> Raised("AttributeError")
      [] OTHER                          -> Raised(reply.kind)

\* generate without its last except clause
generate_propagating(llm, reply) ==
    LET tried == generate_try(reply)
    IN  IF tried.raised /\ tried.value.text = "ConnectionError"
        THEN Returned(None)
        ELSE tried

\* generate answering None for an empty text
generate_none_if_empty(llm, reply) ==
    LET tried == generate_try(reply)
    IN  IF tried.raised \/ tried.value.text = "" THEN Returned(None) ELSE tried

\* OllamaBackend.generate and OpenAIBackend.generate: every exception
\* becomes None
generate(llm, reply) ==
    LET tried == generate_try(reply)
    IN  IF tried.raised THEN Returned(None) ELSE tried

\* _try_start_ollama, called on a ConnectionError of the Ollama backend
AfterGenerate(c, reply) ==
    IF c.llm = "OllamaBackend" /\ reply.kind = "ConnectionError"
    THEN [c EXCEPT !.ollama_start_attempted = TRUE]
    ELSE c

\* f"{acc}" for the accuracy of summary_stats, e.g. 66.7%
FormatAccuracy(acc) ==
    ToString(acc[1] \div 10) \o "." \o ToString(acc[1] % 10) \o acc[2]

HangingPiecesTip ==
    "Tip: You had several blunders. Before each move, ask - does this leave a piece hanging?"

CalculateAheadTip ==
    "Tip: A few mistakes cost you. Try to calculate at least 2 moves ahead before committing."

ConvertAdvantagesTip ==
    "Well played! Your accuracy was strong. Focus on converting advantages in the endgame."

ReviewTip ==
    "Keep practising - consistency comes with time. Review the critical moments above."

\* the tip chosen with the accuracy test before the counts
strategic_tip_accuracy_first(stats) ==
    IF stats.accuracy[1] >= 700 THEN ConvertAdvantagesTip
    ELSE IF stats.blunders >= 3 THEN HangingPiecesTip
    ELSE IF stats.mistakes >= 3 THEN CalculateAheadTip
    ELSE ReviewTip

\* game_summary: the general tip, from the statistics
strategic_tip(stats) ==
    IF stats.blunders >= 3 THEN HangingPiecesTip
    ELSE IF stats.mistakes >= 3 THEN CalculateAheadTip
    ELSE IF stats.accuracy[1] >= 700 THEN ConvertAdvantagesTip
    ELSE ReviewTip

\* game_summary: the lines of the most critical moment
critical_lines(critical) ==
    IF Len(critical) = 0 THEN <<>>
    ELSE LET m     == critical[1]
             phase == infer_game_phase(m.fen_before)
             loss  == Abs(m.score_delta)
         IN  <<"Most critical moment [" \o phase \o "]: " \o m.move_san
                   \o " (" \o classification(m.score_delta) \o ")",
               "  Centipawn loss: " \o ToString(IF loss < 999 THEN loss ELSE 999)
                   \o (IF loss > 999 THEN "+ (decisive)" ELSE "") \o " cp",
               "  Engine suggested: " \o m.best_move_san \o " instead.",
               "">>

\* RuleBasedFallback.game_summary, before the lines are joined
game_summary_lines(r, outcome, player_elo) ==
    LET stats    == summary_stats(r)
        critical == get_critical_moments(r, 1)
    IN  <<"Game Over: " \o outcome,
          "",
          "Your accuracy this game: " \o FormatAccuracy(stats.accuracy),
          "  Blunders: " \o ToString(stats.blunders)
              \o "   Mistakes: " \o ToString(stats.mistakes)
              \o "   Inaccuracies: " \o ToString(stats.inaccuracies),
          "">>
        \o critical_lines(critical)
        \o <<strategic_tip(stats)>>
        \o <<"", "AI coaching via Ollama will activate automatically on the next game.">>

\* "\n".join(lines)
RECURSIVE JoinLines(_)
JoinLines(lines) ==
    IF Len(lines) = 0 THEN ""
    ELSE IF Len(lines) = 1 THEN lines[1]
    ELSE lines[1] \o "\n" \o JoinLines(Tail(lines))

game_summary(r, outcome, player_elo) ==
    JoinLines(game_summary_lines(r, outcome, player_elo))

\* RuleBasedFallback.move_explanation
move_explanation(move, phase) ==
    classification(move.score_delta) \o " in the " \o phase \o ": " \o move.move_san
        \o " (lost ~" \o ToString(Abs(move.score_delta)) \o " cp). "
        \o "Engine preferred: " \o move.best_move_san \o "."

\* explain_move returning the backend's answer whatever it is
explain_move_unguarded(c, move, fen, reply) ==
    LET result == generate(c.llm, reply)
    IN  IF result.raised THEN [raised |-> TRUE, value |-> result.value.text]
        ELSE Returned(result.value.text)

\* ChessCoach.explain_move
explain_move(c, move, fen, reply) ==
    LET phase  == infer_game_phase(fen)
        result == generate(c.llm, reply)
    IN  IF result.raised THEN [raised |-> TRUE, value |-> result.value.text]
        ELSE IF result.value.is_none THEN Returned(move_explanation(move, phase))
        ELSE Returned(result.value.text)

\* ChessCoach.generate_game_summary
generate_game_summary(c, r, outcome, reply) ==
    LET result == generate(c.llm, reply)
    IN  IF result.raised THEN [raised |-> TRUE, value |-> result.value.text]
        ELSE IF result.value.is_none
             THEN Returned(game_summary(r, outcome, c.player_elo))
        ELSE Returned(result.value.text)

\* moves of one report given to the coach
MaxSummaryMoves == 10

\* the position before move i: a full board, then a middlegame, then a
\* queenless ending
FenAtPly(i) ==
    IF i <= 2 THEN [kings |-> 2, queens |-> 2, others |-> 28]
    ELSE IF i <= 4 THEN [kings |-> 2, queens |-> 2, others |-> 16]
    ELSE [kings |-> 2, queens |-> 0, others |-> 8]

\* the MoveEvaluation of analyse_game for move i, played by White
coach_eval(i, delta) ==
    [make_eval(i, delta, "white") EXCEPT !.fen_before = FenAtPly(i),
                                         !.fen_after  = FenAtPly(i + 1)]

\* the evaluated moves of a game with b Blunders, m Mistakes and g Best
\* moves of White, the worst moves first or last
SummaryMoves(b, m, g, worst_first) ==
    LET n == b + m + g
        delta(k) == IF k <= b THEN -250 ELSE IF k <= b + m THEN -150 ELSE 5
    IN  [i \in 1..n |-> coach_eval(i, delta(IF worst_first THEN i ELSE n + 1 - i))]

SummaryLists ==
    {SummaryMoves(x[1], x[2], x[3], x[4]) :
        x \in {y \in (0..MaxSummaryMoves) \X (0..MaxSummaryMoves) \X (0..MaxSummaryMoves)
                      \X BOOLEAN : y[1] + y[2] + y[3] <= MaxSummaryMoves}}

\* get_outcome_description
Outcomes == {"White wins - Checkmate", "Draw - Insufficient Material"}

InitCoach ==
    /\ gl = NewGameLoop("white")
    /\ ret = NoCall
    /\ worker = IdleWorker
    /\ signals = NoSignals
    /\ app = NoApp
    /\ query = NoQuery
    /\ \E b \in {"ollama", "openai"}, k \in {"", "sk-key"}, attempted \in BOOLEAN :
           /\ (attempted => NewChessCoach(b, k).llm = "OllamaBackend")
           /\ coach = [NewChessCoach(b, k) EXCEPT !.ollama_start_attempted = attempted]
    /\ report \in {[evaluated_moves |-> ms, total_moves |-> Len(ms), player_color |-> c] :
                       ms \in SummaryLists, c \in Colors}

\* A coach and a report take one call: the calls share no state but the flag
\* of _try_start_ollama, which the initial states draw.

\* explain_move on a critical moment, as explain_critical_moments calls it
ExplainMove ==
    /\ query.op = "none"
    /\ \E i \in DOMAIN get_critical_moments(report, 3), reply \in Replies(coach.llm) :
           LET move == get_critical_moments(report, 3)[i]
           IN  /\ query' = [op     |-> "explain_move",
                            move   |-> move,
                            reply  |-> reply,
                            result |-> explain_move(coach, move, move.fen_before, reply)]
               /\ coach' = AfterGenerate(coach, reply)
    /\ UNCHANGED <<gl, ret, worker, report, signals, app>>

GenerateGameSummary ==
    /\ query.op = "none"
    /\ \E outcome \in Outcomes, reply \in Replies(coach.llm) :
           /\ query' = [op      |-> "generate_game_summary",
                        outcome |-> outcome,
                        reply   |-> reply,
                        result  |-> generate_game_summary(coach, report, outcome, reply)]
           /\ coach' = AfterGenerate(coach, reply)
    /\ UNCHANGED <<gl, ret, worker, report, signals, app>>

\* RuleBasedFallback.game_summary called on its own
FallbackGameSummary ==
    /\ query.op = "none"
    /\ \E outcome \in Outcomes :
           query' = [op      |-> "game_summary",
                     outcome |-> outcome,
                     lines   |-> game_summary_lines(report, outcome, coach.player_elo),
                     result  |-> Returned(game_summary(report, outcome, coach.player_elo))]
    /\ UNCHANGED <<gl, ret, worker, report, signals, app, coach>>

NextCoach == ExplainMove \/ GenerateGameSummary \/ FallbackGameSummary

SpecCoach == InitCoach /\ [][NextCoach]_vars

-----------------------------------------------------------------------------
(* coach_llm.py: LiveCoach.tip.  Of the board it reads the number of       *)
(* pieces, the two check tests and, piece by piece in the order of         *)
(* piece_map, the colour and whether Black and White attack the square.    *)
(* The pictographs of the texts are left out.                              *)

OPENING_TIPS ==
    <<"Opening principle: Control the centre with pawns to e4 or d4.",
      "Opening principle: Develop your knights and bishops early.",
      "Opening principle: Castle early to keep your king safe.",
      "Opening principle: Don't move the same piece twice in the opening.",
      "Opening principle: Connect your rooks by castling and developing all pieces.",
      "Opening principle: Avoid moving your queen too early - it can be attacked.",
      "Opening principle: Each move should develop a piece or improve your position.",
      "Tip: Look for forks - moves that attack two pieces at once.">>

MIDDLEGAME_TIPS ==
    <<"Middlegame tip: Before moving, ask - can my opponent capture anything for free?",
      "Middlegame tip: Identify your opponent's most dangerous piece and neutralise it.",
      "Middlegame tip: Look for checks, captures, and threats before making a quiet move.",
      "Middlegame tip: Rooks belong on open files - move pawns to open lines for them.",
      "Middlegame tip: Knights are strongest in the centre; bishops on open diagonals.",
      "Middlegame tip: Double-check - will this move leave a piece undefended?",
      "Middlegame tip: Look for outpost squares - squares where your knight can't be chased.",
      "Middlegame tip: Coordinate your pieces - two pieces working together beat one powerful one.">>

ENDGAME_TIPS ==
    <<"Endgame tip: Activate your king - it's a powerful piece in the endgame.",
      "Endgame tip: Push passed pawns toward promotion.",
      "Endgame tip: The rook is most powerful behind a passed pawn.",
      "Endgame tip: In king + pawn endgames, opposition is key.",
      "Endgame tip: Eliminate your opponent's passed pawns early.">>

\* int(hashlib.md5(str(move_count).encode()).hexdigest(), 16) % 40 for
\* move_count 0, 1, 2, ...; the lists have 8 and 5 tips, which divide 40
Md5Mod40 ==
    <<10, 11, 12, 3, 20, 13, 12, 35, 21, 14, 24, 10, 32, 33, 38, 3, 15, 27, 35, 12,
      36, 1, 17, 29>>

md5_mod(move_count, length) == Md5Mod40[move_count + 1] % length

\* the phase chosen with the piece count before the move count
tip_phase_pieces_first(board, move_count) ==
    IF board.piece_count <= 12 THEN "Endgame"
    ELSE IF board.piece_count >= 26 \/ move_count <= 14 THEN "Opening"
    ELSE "Middlegame"

\* tip: phase
tip_phase(board, move_count) ==
    IF board.piece_count >= 26 \/ move_count <= 14 THEN "Opening"
    ELSE IF board.piece_count <= 12 THEN "Endgame"
    ELSE "Middlegame"

\* tip: tips
tip_list(phase) ==
    CASE phase = "Opening" -> OPENING_TIPS
      [] phase = "Endgame" -> ENDGAME_TIPS
      [] OTHER             -> MIDDLEGAME_TIPS

\* the index taken from the hash of the piece count as well
tip_idx_of_board(board, move_count, tips) ==
    md5_mod((move_count + board.piece_count) % Len(Md5Mod40), Len(tips))

\* tip: tip_idx, an index from 0
tip_idx(board, move_count, tips) == md5_mod(move_count, Len(tips))

\* tip: tip
tip_base(board, move_count) ==
    LET tips == tip_list(tip_phase(board, move_count))
    IN  tips[tip_idx(board, move_count, tips) + 1]

CheckWarning == "\nYour king is in check! Find a safe square."

GivingCheckNote == "\nYou're giving check - look for follow-up tactics."

DangerWarning(piece) ==
    "\nDanger: your " \o piece.name \o " on " \o piece.square \o " may be undefended!"

\* the loop over piece_map: the warning for the first white piece attacked
\* by Black and not attacked by White
RECURSIVE hanging_warning(_)
hanging_warning(pieces) ==
    IF Len(pieces) = 0 THEN ""
    ELSE LET piece == Head(pieces)
         IN  IF piece.color = "white"
                /\ piece.attacked_by_black /\ ~piece.attacked_by_white
             THEN DangerWarning(piece)
             ELSE hanging_warning(Tail(pieces))

\* the hanging-piece test made whoever played the last move
tip_extra_any_mover(board, last_move) ==
    IF board.is_check THEN CheckWarning
    ELSE IF board.giving_check THEN GivingCheckNote
    ELSE IF ~last_move.is_none THEN hanging_warning(board.pieces)
    ELSE ""

\* tip: extra
tip_extra(board, last_move) ==
    IF board.is_check THEN CheckWarning
    ELSE IF board.giving_check THEN GivingCheckNote
    ELSE IF ~last_move.is_none /\ last_move.played_by = "white"
         THEN hanging_warning(board.pieces)
    ELSE ""

\* LiveCoach.tip
tip(board, move_count, last_move) ==
    "[" \o tip_phase(board, move_count) \o "] " \o tip_base(board, move_count)
        \o tip_extra(board, last_move)

\* moves made when the tip is asked for
MaxMoveCount == 16

\* piece counts around the thresholds 12 and 26
TipPieceCounts == {10, 12, 13, 25, 26, 32}

\* the k-th piece of piece_map: a white piece with each outcome of the two
\* attack tests, or a black piece defended by its own side only
TipPieces(k) ==
    LET name   == IF k = 1 THEN "Pawn" ELSE "Knight"
        square == IF k = 1 THEN "e4" ELSE "f3"
    IN  {[color |-> "white", name |-> name, square |-> square,
          attacked_by_black |-> a, attacked_by_white |-> d] : a, d \in BOOLEAN}
        \cup {[color |-> "black", name |-> name, square |-> square,
               attacked_by_black |-> TRUE, attacked_by_white |-> FALSE]}

TipPieceLists ==
    {<<>>} \cup {<<p>> : p \in TipPieces(1)}
           \cup {<<p, q>> : p \in TipPieces(1), q \in TipPieces(2)}

TipBoards ==
    [piece_count : TipPieceCounts, is_check : BOOLEAN, giving_check : BOOLEAN,
     pieces : TipPieceLists]

\* None, or the last MoveRecord of the history
LastMoves ==
    {[is_none |-> TRUE, played_by |-> "none"]}
    \cup {[is_none |-> FALSE, played_by |-> c] : c \in Colors}

InitTip ==
    /\ gl = NewGameLoop("white")
    /\ ret = NoCall
    /\ worker = IdleWorker
    /\ report = NoReport
    /\ signals = NoSignals
    /\ app = NoApp
    /\ coach = NewChessCoach("ollama", "")
    /\ \E board \in TipBoards, move_count \in 0..MaxMoveCount, last_move \in LastMoves :
           query = [op |-> "LiveCoach", board |-> board, move_count |-> move_count,
                    last_move |-> last_move]

Tip ==
    /\ query.op = "LiveCoach"
    /\ query' = [op         |-> "tip",
                 board      |-> query.board,
                 move_count |-> query.move_count,
                 last_move  |-> query.last_move,
                 phase      |-> tip_phase(query.board, query.move_count),
                 tip_idx    |-> tip_idx(query.board, query.move_count,
                                        tip_list(tip_phase(query.board, query.move_count))),
                 base       |-> tip_base(query.board, query.move_count),
                 result     |-> tip(query.board, query.move_count, query.last_move)]
    /\ UNCHANGED <<gl, ret, worker, report, signals, app, coach>>

NextTip == Tip

SpecTip == InitTip /\ [][NextTip]_vars

-----------------------------------------------------------------------------
(* analyzer.py: the evaluation of one record when the engine reports       *)
(* forced mates.  A score is info["score"].white(): centipawns, Mate(n)    *)
(* with n # 0, or for a position that is checkmate the score of distance   *)
(* 0, MateGiven when Black is mated and Mate(0) when White is; mate() is 0 *)
(* for both.                                                               *)

\* the longest forced mate reported
MaxMate == 2

MateCpScores == {-100, 0, 100}

\* the scores of a position that is not checkmate
OpenScores ==
    {[kind |-> "cp", value |-> v, given |-> FALSE] : v \in MateCpScores}
    \cup {[kind |-> "mate", value |-> n, given |-> FALSE] :
              n \in (-MaxMate..MaxMate) \ {0}}

\* the score of the position after the mover delivered checkmate
CheckmateScore(mover) ==
    [kind |-> "mate", value |-> 0, given |-> (mover = "white")]

InitMate ==
    /\ gl = NewGameLoop("white")
    /\ ret = NoCall
    /\ worker = IdleWorker
    /\ report = NoReport
    /\ signals = NoSignals
    /\ app = NoApp
    /\ coach = NewChessCoach("ollama", "")
    /\ \E played_by \in Colors, checkmates \in BOOLEAN, before \in OpenScores :
           \E after \in (IF checkmates THEN {CheckmateScore(played_by)} ELSE OpenScores) :
               query = [op |-> "record", played_by |-> played_by,
                        checkmates |-> checkmates, before |-> before, after |-> after]

\* analyse_game on the record: both evaluations and the delta
AnalyseMove ==
    /\ query.op = "record"
    /\ query' = [op          |-> "analyse_game",
                 played_by   |-> query.played_by,
                 checkmates  |-> query.checkmates,
                 before      |-> query.before,
                 after       |-> query.after,
                 eval_before |-> evaluate_fen(query.before).value,
                 eval_after  |-> evaluate_fen(query.after).value,
                 score_delta |-> ScoreDelta(query.played_by,
                                            evaluate_fen(query.before).value,
                                            evaluate_fen(query.after).value)]
    /\ UNCHANGED <<gl, ret, worker, report, signals, app, coach>>

NextMate == AnalyseMove

SpecMate == InitMate /\ [][NextMate]_vars

-----------------------------------------------------------------------------
(* engine_manager.py: the strength of an EngineManager.  __init__ takes    *)
(* stockfish_path and skill_level; the class has the attributes            *)
(* DEFAULT_TIME_LIMIT and ANALYSIS_DEPTH and the method set_skill_level.   *)
(* A call with a keyword the signature lacks raises TypeError, the use of  *)
(* a name the class lacks raises AttributeError.                           *)

\* skill levels given to the constructor and to set_skill_level: 0..MaxLevel
MaxLevel == 21

\* the elo values of the tests and of the slider's callers
EloValues == {400, 1500, 9999}

\* the keyword arguments of __init__
InitKeywords == {"skill_level"}

\* the attributes and methods of the class
ClassNames == {"DEFAULT_TIME_LIMIT", "ANALYSIS_DEPTH", "set_skill_level"}

NoEngine == [skill_level |-> 0]

\* min(max(level, 1), 20)
clamp_level(level) ==
    LET low == IF level > 1 THEN level ELSE 1
    IN  IF low < 20 THEN low ELSE 20

\* EngineManager(stockfish_path, <keyword>=<value>), the default being
\* skill_level=5
NewEngineManager(isfile, keyword, value) ==
    IF keyword \notin InitKeywords
    THEN [raised |-> TRUE, error |-> "TypeError", value |-> NoEngine]
    ELSE IF ~isfile
    THEN [raised |-> TRUE, error |-> "FileNotFoundError", value |-> NoEngine]
    ELSE [raised |-> FALSE, error |-> "none",
          value |-> [skill_level |-> clamp_level(value)]]

\* EngineManager.set_skill_level
set_skill_level(engine, level) == [engine EXCEPT !.skill_level = clamp_level(level)]

\* engine.<method>(value)
CallMethod(engine, method, arg) ==
    IF method \notin ClassNames
    THEN [raised |-> TRUE, error |-> "AttributeError", value |-> engine]
    ELSE [raised |-> FALSE, error |-> "none", value |-> set_skill_level(engine, arg)]

InitEngine ==
    /\ gl = NewGameLoop("white")
    /\ ret = NoCall
    /\ worker = IdleWorker
    /\ report = NoReport
    /\ signals = NoSignals
    /\ app = NoApp
    /\ coach = NewChessCoach("ollama", "")
    /\ query = NoQuery

\* EngineManager(...) as main.py and the tests call it
Construct ==
    /\ query.op = "none"
    /\ \E isfile \in BOOLEAN, keyword \in {"skill_level", "elo"} :
           \E value \in (IF keyword = "elo" THEN EloValues ELSE 0..MaxLevel) :
               query' = [op |-> "EngineManager", isfile |-> isfile, keyword |-> keyword,
                         arg |-> value,
                         result |-> NewEngineManager(isfile, keyword, value)]
    /\ UNCHANGED <<gl, ret, worker, report, signals, app, coach>>

\* the slider moved: _on_skill_changed calls engine.set_elo
OnSkillChanged ==
    /\ query.op \in {"EngineManager", "set_elo", "set_skill_level"}
    /\ ~query.result.raised
    /\ \E elo \in EloValues \cup 1..20 :
           query' = [op |-> "set_elo", isfile |-> TRUE, keyword |-> "none", arg |-> elo,
                     result |-> CallMethod(query.result.value, "set_elo", elo)]
    /\ UNCHANGED <<gl, ret, worker, report, signals, app, coach>>

\* engine.set_skill_level(level)
SetSkillLevel ==
    /\ query.op \in {"EngineManager", "set_skill_level"}
    /\ ~query.result.raised
    /\ \E level \in 0..MaxLevel :
           query' = [op |-> "set_skill_level", isfile |-> TRUE, keyword |-> "none",
                     arg |-> level,
                     result |-> CallMethod(query.result.value, "set_skill_level", level)]
    /\ UNCHANGED <<gl, ret, worker, report, signals, app, coach>>

NextEngine == Construct \/ OnSkillChanged \/ SetSkillLevel

SpecEngine == InitEngine /\ [][NextEngine]_vars

-----------------------------------------------------------------------------
(* One Ollama backend over several calls of generate *)

MaxCalls == 5

\* launched without looking at the flag
try_start_ollama_every_time(c) ==
    [coach |-> [c EXCEPT !.ollama_start_attempted = TRUE], threads |-> 1]

\* OllamaBackend._try_start_ollama: the backend afterwards and the number
\* of pull-and-serve threads started
try_start_ollama(c) ==
    IF c.ollama_start_attempted
    THEN [coach |-> c, threads |-> 0]
    ELSE [coach |-> [c EXCEPT !.ollama_start_attempted = TRUE], threads |-> 1]

\* the session's count of calls, of calls that met a ConnectionError and of
\* pull-and-serve threads started
NoSession == [calls |-> 0, connection_errors |-> 0, threads |-> 0]

InitOllama ==
    /\ gl = NewGameLoop("white")
    /\ ret = NoCall
    /\ worker = IdleWorker
    /\ report = NoReport
    /\ signals = NoSignals
    /\ query = NoQuery
    /\ coach = NewChessCoach("ollama", "")
    /\ app = NoSession

\* OllamaBackend.generate, one call after the other on the same instance
Generate ==
    /\ app.calls < MaxCalls
    /\ \E reply \in Replies(coach.llm) :
           LET refused == reply.kind = "ConnectionError"
               started == IF refused THEN try_start_ollama(coach)
                          ELSE [coach |-> coach, threads |-> 0]
           IN  /\ query' = [op     |-> "generate",
                            reply  |-> reply,
                            result |-> generate(coach.llm, reply)]
               /\ coach' = started.coach
               /\ app' = [calls             |-> app.calls + 1,
                          connection_errors |-> app.connection_errors
                                                    + (IF refused THEN 1 ELSE 0),
                          threads           |-> app.threads + started.threads]
    /\ UNCHANGED <<gl, ret, worker, report, signals>>

NextOllama == Generate

SpecOllama == InitOllama /\ [][NextOllama]_vars

-----------------------------------------------------------------------------
(* Properties *)

Max(a, b) == IF a > b THEN a ELSE b

\* the tier the table of the data model gives a loss
TierOf(loss) ==
    CASE loss < 10 -> "Best"
      [] loss >= 10 /\ loss < 50 -> "Good"
      [] loss >= 50 /\ loss < 100 -> "Inaccuracy"
      [] loss >= 100 /\ loss < 200 -> "Mistake"
      [] loss >= 200 -> "Blunder"

\* the classification asked for a score delta d came out as tier
Classified(d, tier) ==
    (query.op = "classification" /\ query.score_delta = d) => query.result = tier

\* C1: the classification of a move is the tier of abs(score_delta) in the
\* table Best < 10 <= Good < 50 <= Inaccuracy < 100 <= Mistake < 200 <=
\* Blunder, the same for a delta and its negation; 10, 50, 100 and 200 are
\* Good, Inaccuracy, Mistake and Blunder, and 9, 49, 99 and 199 the tier below.
C1_ClassificationTable ==
    /\ query.op = "classification" =>
           query.result = TierOf(IF query.score_delta < 0
                                 THEN 0 - query.score_delta ELSE query.score_delta)
    /\ \A s \in {1, -1} :
           /\ Classified(s * 9, "Best")        /\ Classified(s * 10, "Good")
           /\ Classified(s * 49, "Good")       /\ Classified(s * 50, "Inaccuracy")
           /\ Classified(s * 99, "Inaccuracy") /\ Classified(s * 100, "Mistake")
           /\ Classified(s * 199, "Mistake")   /\ Classified(s * 200, "Blunder")

C1_Witness ==
    /\ query.op = "classification"
    /\ query.score_delta = -200
    /\ query.result = "Blunder"

\* the sign convention on one MoveEvaluation
MoverCentric(e) ==
    /\ e.played_by = "white" => e.score_delta = e.eval_after - e.eval_before
    /\ e.played_by = "black" => e.score_delta = e.eval_before - e.eval_after
    /\ (e.played_by = "white" /\ e.eval_after < e.eval_before) => e.score_delta < 0
    /\ (e.played_by = "black" /\ e.eval_after > e.eval_before) => e.score_delta < 0
    /\ (e.eval_before = 0 /\ e.eval_after = 100) =>
           e.score_delta = (IF e.played_by = "white" THEN 100 ELSE -100)

\* C2: every evaluation analyse_game builds has the score delta of its mover:
\* eval_after - eval_before for a white move, eval_before - eval_after for a
\* black move, so a move that worsens the mover's evaluation has a negative
\* delta; evaluations 0 -> 100 give +100 for white and -100 for black.
C2_ScoreDeltaMoverCentric ==
    /\ \A i \in DOMAIN worker.evaluated_moves : MoverCentric(worker.evaluated_moves[i])
    /\ \A i \in DOMAIN report.evaluated_moves : MoverCentric(report.evaluated_moves[i])

C2_Witness ==
    /\ Len(report.evaluated_moves) = 2
    /\ \A i \in 1..2 :
           /\ report.evaluated_moves[i].eval_before = 0
           /\ report.evaluated_moves[i].eval_after = 100
    /\ report.evaluated_moves[1].played_by = "white"
    /\ report.evaluated_moves[1].score_delta = 100
    /\ report.evaluated_moves[2].played_by = "black"
    /\ report.evaluated_moves[2].score_delta = -100

\* whether a move of a report is the designated player's Mistake or Blunder
IsCritical(r, m) ==
    /\ m.played_by = r.player_color
    /\ classification(m.score_delta) \in {"Mistake", "Blunder"}

\* C3: for n >= 0, get_critical_moments(n) holds only moves of the report
\* that the designated player made and that are Mistakes or Blunders, in
\* descending order of abs(score_delta), and moves of equal abs(score_delta)
\* in the order they were played.
C3_CriticalMomentsSorted ==
    (query.op = "get_critical_moments" /\ query.top_n >= 0) =>
        LET cm == query.result
        IN  /\ \A k \in DOMAIN cm :
                   /\ \E i \in DOMAIN report.evaluated_moves :
                          report.evaluated_moves[i] = cm[k]
                   /\ IsCritical(report, cm[k])
            /\ \A k \in DOMAIN cm : \A l \in DOMAIN cm :
                   k < l =>
                       /\ Abs(cm[k].score_delta) >= Abs(cm[l].score_delta)
                       /\ Abs(cm[k].score_delta) = Abs(cm[l].score_delta)
                              => cm[k].fen_before < cm[l].fen_before

C3_Witness ==
    /\ query.op = "get_critical_moments"
    /\ query.top_n = 3
    /\ Len(query.result) = 3
    /\ query.result[1].score_delta = -250
    /\ query.result[2].score_delta = 150
    /\ query.result[3].score_delta = -150

\* C4: get_critical_moments(n) has at most max(n, 0) entries, for every
\* integer n, and is empty when the player has no Mistake or Blunder.
C4_AtMostTopN ==
    query.op = "get_critical_moments" =>
        /\ Len(query.result) <= Max(query.top_n, 0)
        /\ (\A i \in DOMAIN report.evaluated_moves :
                ~IsCritical(report, report.evaluated_moves[i]))
               => query.result = <<>>

\* the indices of the designated player's moves in a report
PlayerIndices(r) ==
    {i \in DOMAIN r.evaluated_moves : r.evaluated_moves[i].played_by = r.player_color}

\* C5: with at least one player move, accuracy_percentage is
\* 100 * (player moves that are Best or Good) / (player moves) to the nearest
\* tenth, between 0.0 and 100.0.
C5_AccuracyRounded ==
    (query.op = "accuracy_percentage" /\ PlayerIndices(report) # {}) =>
        LET n    == Cardinality(PlayerIndices(report))
            good == Cardinality({i \in PlayerIndices(report) :
                        classification(report.evaluated_moves[i].score_delta)
                            \in {"Best", "Good"}})
        IN  /\ query.result \in 0..1000
            /\ 2 * Abs(query.result * n - 1000 * good) <= n

C5_Witness ==
    /\ query.op = "accuracy_percentage"
    /\ Cardinality(PlayerIndices(report)) = 3
    /\ query.result = 667

\* analyse_game has returned a report
AnalysisSucceeded == worker.pc \in {"coach", "done"}

\* C6: a report in which the designated player made no move has accuracy 0.0
\* (shown as 0.0%), and the analysis of an empty move history succeeds with a
\* report of zero moves and without a call of the evaluator.
C6_NoPlayerMoves ==
    /\ (signals.stats # <<>> /\ PlayerIndices(report) = {}) =>
           /\ signals.stats.accuracy = <<0, "%">>
           /\ signals.stats.total_player_moves = 0
    /\ (worker.pc \in {"analyse", "coach", "done", "error"}
            /\ worker.move_history = <<>>) =>
           /\ worker.engine_calls = 0
           /\ signals.error = 0
           /\ worker.pc # "error"
           /\ AnalysisSucceeded =>
                  /\ report.total_moves = 0
                  /\ report.evaluated_moves = <<>>

C6_Witness ==
    /\ worker.pc = "done"
    /\ worker.move_history = <<>>
    /\ report.total_moves = 0
    /\ signals.stats # <<>>
    /\ signals.stats.accuracy = <<0, "%">>

\* the other case of C6: the report holds only the opponent's move
C6_OpponentOnly ==
    /\ worker.pc = "done"
    /\ Len(report.evaluated_moves) = 1
    /\ report.player_color = "black"
    /\ signals.stats # <<>>
    /\ signals.stats.accuracy = <<0, "%">>

\* a report without the opponent's moves
PlayerOnly(r) == [r EXCEPT !.evaluated_moves = player_moves(r)]

\* C7: the statistics and the critical moments of a report are those of the
\* report without the opponent's moves, so no opponent move changes them; a
\* white Blunder of -250 followed by a black move of +5, for player white,
\* gives 1 blunder, 0 mistakes, 0 inaccuracies, accuracy 0.0 and that one
\* critical moment.
C7_PlayerScoped ==
    LET example ==
            /\ report.player_color = "white"
            /\ Len(report.evaluated_moves) = 2
            /\ report.evaluated_moves[1].played_by = "white"
            /\ report.evaluated_moves[1].score_delta = -250
            /\ report.evaluated_moves[2].played_by = "black"
            /\ report.evaluated_moves[2].score_delta = 5
    IN  /\ query.op = "summary_stats" =>
               /\ query.result = summary_stats(PlayerOnly(report))
               /\ example =>
                      /\ query.result.blunders = 1
                      /\ query.result.mistakes = 0
                      /\ query.result.inaccuracies = 0
                      /\ query.result.accuracy = <<0, "%">>
        /\ query.op = "accuracy_percentage" =>
               query.result = accuracy_percentage(PlayerOnly(report))
        /\ query.op = "get_critical_moments" =>
               /\ query.result = get_critical_moments(PlayerOnly(report), query.top_n)
               /\ (example /\ query.top_n = 3) =>
                      query.result = <<report.evaluated_moves[1]>>

C7_Witness ==
    /\ query.op = "summary_stats"
    /\ report.player_color = "white"
    /\ Len(report.evaluated_moves) = 3
    /\ report.evaluated_moves[1].played_by = "black"
    /\ report.evaluated_moves[1].score_delta = -250
    /\ report.evaluated_moves[2].played_by = "white"
    /\ report.evaluated_moves[2].score_delta = -150
    /\ report.evaluated_moves[3].played_by = "black"
    /\ query.result.blunders = 0
    /\ query.result.mistakes = 1

\* C8: when analyse_game succeeds on a history of k records, the report has k
\* evaluations and total_moves k, and evaluation i has the san, fen_before,
\* fen_after and played_by of record i.
C8_ReportFollowsHistory ==
    AnalysisSucceeded =>
        /\ Len(report.evaluated_moves) = Len(worker.move_history)
        /\ report.total_moves = Len(worker.move_history)
        /\ \A i \in DOMAIN worker.move_history :
               /\ report.evaluated_moves[i].move_san = worker.move_history[i].san
               /\ report.evaluated_moves[i].fen_before = worker.move_history[i].fen_before
               /\ report.evaluated_moves[i].fen_after = worker.move_history[i].fen_after
               /\ report.evaluated_moves[i].played_by = worker.move_history[i].played_by

C8_Witness ==
    /\ worker.pc = "done"
    /\ Len(worker.move_history) = 2
    /\ report.total_moves = 2
    /\ report.evaluated_moves[1].move_san = "Nf3"
    /\ report.evaluated_moves[2].move_san = "e5"

\* C9: once a call of the evaluator has failed, the analysis has failed as a
\* whole: there is no report, not even of the moves evaluated before, error
\* was emitted once and finished is never emitted.
C9_EvaluatorFailureFailsAnalysis ==
    worker.engine_failed =>
        /\ worker.pc = "error"
        /\ report = NoReport
        /\ signals.error = 1
        /\ signals.finished = 0
        /\ signals.stats = <<>>

C9_Witness ==
    /\ worker.engine_failed
    /\ Len(worker.move_history) = 2
    /\ worker.engine_calls = 5
    /\ signals.error = 1
    /\ ~signals.loading

\* C10: in every state of a game session, each record's fen_after is the
\* fen_before of the record that follows it.
C10_HistoryIsChain ==
    \A i \in 1..(Len(gl.move_history) - 1) :
        gl.move_history[i].fen_after = gl.move_history[i + 1].fen_before

C10_Witness ==
    /\ Len(gl.move_history) = 3
    /\ gl.move_history[1].fen_after = gl.move_history[2].fen_before
    /\ gl.move_history[2].fen_after = gl.move_history[3].fen_before
    /\ gl.move_history[1].fen_after # gl.move_history[2].fen_after

\* C11: a call of apply_player_move with a malformed move, or with a move
\* that is not legal in the position, returns False and leaves the session
\* as it was (board, side to move, history, counter); a call that returns
\* True was given a legal move and appends exactly one record, the move's;
\* a legal move given in a started session on the player's turn is accepted.
C11_IllegalMoveRejected ==
    [][/\ (ret'.op = "apply_player_move" /\ ret'.arg \notin LegalMoves(gl.board)) =>
              /\ ret'.value = FALSE
              /\ gl' = gl
       /\ (ret'.op = "apply_player_move" /\ ret'.value = FALSE) => gl' = gl
       /\ (ret'.op = "apply_player_move" /\ ret'.value = TRUE) =>
              /\ ret'.arg \in LegalMoves(gl.board)
              /\ Len(gl'.move_history) = Len(gl.move_history) + 1
              /\ SubSeq(gl'.move_history, 1, Len(gl.move_history)) = gl.move_history
              /\ gl'.move_history[Len(gl'.move_history)].uci = ret'.arg
              /\ gl'.board.stack = Append(gl.board.stack, ret'.arg)
       /\ (ret'.op = "apply_player_move" /\ ret'.arg \in LegalMoves(gl.board)
               /\ gl.started /\ is_player_turn(gl)) => ret'.value = TRUE
      ]_vars

\* an illegal move was refused after a move had been played
C11_Witness ==
    /\ ret.op = "apply_player_move"
    /\ ret.arg = IllegalUci
    /\ ret.value = FALSE
    /\ gl.started
    /\ is_player_turn(gl)
    /\ Len(gl.move_history) = 2

\* C12: at most one request is in flight on the engine process, whatever the
\* interleaving of the eval-bar threads, the bot move on the main thread and
\* the analysis workers.
C12_EngineExclusive == app.in_flight <= 1

\* the placement has p pieces, q of them queens
Counts(pl, p, q) == PieceCount(pl) = p /\ QueenCount(pl) = q

\* C15: infer_game_phase is the three-way rule on the piece count p and the
\* queen count q, read in order: Opening when p >= 28; else Endgame when
\* p <= 12 or q = 0; else Middlegame.  The result is one of the three for
\* every position; the 32-piece start position is Opening, kings and one pawn
\* are Endgame.
C15_ThreeWayRule ==
    query.op = "infer_game_phase" =>
        LET p == PieceCount(query.fen)
            q == QueenCount(query.fen)
        IN  /\ query.result \in {"Opening", "Endgame", "Middlegame"}
            /\ p >= 28 => query.result = "Opening"
            /\ (p < 28 /\ (p <= 12 \/ q = 0)) => query.result = "Endgame"
            /\ (p < 28 /\ p > 12 /\ q > 0) => query.result = "Middlegame"
            /\ Counts(query.fen, 32, 2) => query.result = "Opening"
            /\ Counts(query.fen, 3, 0) => query.result = "Endgame"

\* a middlegame: 20 pieces with both queens
C15_Witness ==
    /\ query.op = "infer_game_phase"
    /\ Counts(query.fen, 20, 2)
    /\ query.result = "Middlegame"

\* C16 as stated: with no queens on the board the phase is Endgame whatever
\* the piece count, 28 or more pieces included.
C16_NoQueensAlwaysEndgame ==
    (query.op = "infer_game_phase" /\ QueenCount(query.fen) = 0) =>
        query.result = "Endgame"

\* C16, amended: with no queens on the board and fewer than 28 pieces the
\* phase is Endgame (so for 20 pieces); with 28 or more pieces it is Opening,
\* queens or not.
C16_NoQueensBelowOpening ==
    (query.op = "infer_game_phase" /\ QueenCount(query.fen) = 0) =>
        /\ PieceCount(query.fen) < 28 => query.result = "Endgame"
        /\ PieceCount(query.fen) >= 28 => query.result = "Opening"

\* 20 pieces and no queens
C16_Witness ==
    /\ query.op = "infer_game_phase"
    /\ Counts(query.fen, 20, 0)
    /\ query.result = "Endgame"

\* the backend is unreachable, raises inside generate, or answers nothing
\* that has a text
BackendFailed(reply) == reply.kind \notin {"ok", "no_response_key"}

\* C13: when the backend is unreachable, raises an error internally or
\* signals unavailability, explain_move and generate_game_summary do not
\* fail and return exactly the text of RuleBasedFallback.move_explanation,
\* resp. game_summary, for the same inputs.
C13_FallbackOnFailure ==
    /\ (query.op = "explain_move" /\ BackendFailed(query.reply)) =>
           /\ ~query.result.raised
           /\ query.result.value =
                  move_explanation(query.move, infer_game_phase(query.move.fen_before))
    /\ (query.op = "generate_game_summary" /\ BackendFailed(query.reply)) =>
           /\ ~query.result.raised
           /\ query.result.value = game_summary(report, query.outcome, coach.player_elo)

\* Ollama refused the connection while a game with a blunder was summarised
C13_Witness ==
    /\ query.op = "generate_game_summary"
    /\ query.reply.kind = "ConnectionError"
    /\ coach.ollama_start_attempted
    /\ Len(blunders(report)) = 1
    /\ ~query.result.raised
    /\ query.result.value = game_summary(report, query.outcome, coach.player_elo)

\* C14: whatever the report, the outcome and the backend's response,
\* generate_game_summary and explain_move return a non-empty coaching text.
C14_AlwaysCoachingText ==
    query.op \in {"explain_move", "generate_game_summary"} =>
        /\ ~query.result.raised
        /\ query.result.value # ""

Tips == {HangingPiecesTip, CalculateAheadTip, ConvertAdvantagesTip, ReviewTip}

\* the player's moves of the report in a tier
PlayerTier(r, tier) ==
    {i \in PlayerIndices(r) : classification(r.evaluated_moves[i].score_delta) = tier}

\* the accuracy, to one decimal, is at least 70.0
AccuracyAtLeast70(r) ==
    /\ PlayerIndices(r) # {}
    /\ 2000 * Cardinality(PlayerTier(r, "Best") \cup PlayerTier(r, "Good"))
           >= 1399 * Cardinality(PlayerIndices(r))

\* C20: RuleBasedFallback.game_summary succeeds for every report and has
\* exactly one of the four strategic tips: the hanging-pieces tip when
\* blunders >= 3; else the calculate-ahead tip when mistakes >= 3; else the
\* convert-advantages tip when accuracy >= 70; else the review tip, which a
\* report without player moves gets.
C20_OneStrategicTip ==
    query.op = "game_summary" =>
        LET tips == {i \in DOMAIN query.lines : query.lines[i] \in Tips}
            expected ==
                IF Cardinality(PlayerTier(report, "Blunder")) >= 3 THEN HangingPiecesTip
                ELSE IF Cardinality(PlayerTier(report, "Mistake")) >= 3 THEN CalculateAheadTip
                ELSE IF AccuracyAtLeast70(report) THEN ConvertAdvantagesTip
                ELSE ReviewTip
        IN  /\ ~query.result.raised
            /\ query.result.value = JoinLines(query.lines)
            /\ Cardinality(tips) = 1
            /\ \A i \in tips : query.lines[i] = expected
            /\ PlayerIndices(report) = {} => \A i \in tips : query.lines[i] = ReviewTip

\* three blunders among seven good moves: the accuracy is 70.0 and the
\* hanging-pieces tip is chosen
C20_Witness ==
    /\ query.op = "game_summary"
    /\ Cardinality(PlayerTier(report, "Blunder")) = 3
    /\ AccuracyAtLeast70(report)
    /\ \E i \in DOMAIN query.lines : query.lines[i] = HangingPiecesTip

\* a report with moves, none of them the player's, gets the review tip
C20_NoPlayerMoves ==
    /\ query.op = "game_summary"
    /\ Len(report.evaluated_moves) > 0
    /\ PlayerIndices(report) = {}
    /\ \E i \in DOMAIN query.lines : query.lines[i] = ReviewTip

\* the elements of a list of tips
TipsOf(tips) == {tips[i] : i \in DOMAIN tips}

\* the annotations tip can append on a board
ExtrasOn(board) ==
    {"", CheckWarning, GivingCheckNote}
    \cup {DangerWarning(board.pieces[i]) : i \in DOMAIN board.pieces}

\* the phase C17 gives
LivePhase(piece_count, move_count) ==
    IF piece_count >= 26 \/ move_count <= 14 THEN "Opening"
    ELSE IF piece_count <= 12 THEN "Endgame"
    ELSE "Middlegame"

\* C17: LiveCoach.tip takes the phase Opening when the piece count is >= 26
\* or move_count <= 14, otherwise Endgame when the piece count is <= 12,
\* otherwise Middlegame; the text is the phase in brackets, a tip of that
\* phase's list and possibly an annotation; 10 pieces at move_count 14 are
\* tagged Opening.
C17_LivePhaseRule ==
    query.op = "tip" =>
        LET phase == LivePhase(query.board.piece_count, query.move_count)
        IN  /\ \E base \in TipsOf(tip_list(phase)), extra \in ExtrasOn(query.board) :
                   query.result = "[" \o phase \o "] " \o base \o extra
            /\ query.base \in TipsOf(tip_list(phase))
            /\ (query.board.piece_count = 10 /\ query.move_count = 14) =>
                   \E base \in TipsOf(OPENING_TIPS), extra \in ExtrasOn(query.board) :
                       query.result = "[Opening] " \o base \o extra

\* ten pieces at move 14
C17_Witness ==
    /\ query.op = "tip"
    /\ query.board.piece_count = 10
    /\ query.move_count = 14
    /\ query.phase = "Opening"

\* ten pieces at move 15 are an endgame
C17_EndgameReached ==
    /\ query.op = "tip"
    /\ query.board.piece_count = 10
    /\ query.move_count = 15
    /\ query.phase = "Endgame"

\* the white pieces of the board that Black attacks and White does not
HangingIndices(board) ==
    {i \in DOMAIN board.pieces :
        /\ board.pieces[i].color = "white"
        /\ board.pieces[i].attacked_by_black
        /\ ~board.pieces[i].attacked_by_white}

\* the text ends with exactly this annotation
EndsWith(text, extra) ==
    \E phase \in {"Opening", "Endgame", "Middlegame"} :
        \E base \in TipsOf(tip_list(phase)) : text = "[" \o phase \o "] " \o base \o extra

\* C18: tip appends at most one annotation: the check warning when the side
\* to move is in check; otherwise the follow-up note when it is giving check;
\* otherwise, when there is a last move and White played it, the warning for
\* the first white piece attacked by Black and not defended by White;
\* otherwise nothing, so no hanging-piece warning without a last move or
\* after a move of Black.
C18_OneAnnotationByPriority ==
    query.op = "tip" =>
        LET board   == query.board
            hanging == HangingIndices(board)
            first   == CHOOSE i \in hanging : \A j \in hanging : i <= j
        IN  IF board.is_check THEN EndsWith(query.result, CheckWarning)
            ELSE IF board.giving_check THEN EndsWith(query.result, GivingCheckNote)
            ELSE IF ~query.last_move.is_none /\ query.last_move.played_by = "white"
                    /\ hanging # {}
                 THEN EndsWith(query.result, DangerWarning(board.pieces[first]))
            ELSE EndsWith(query.result, "")

\* White has just moved; the pawn is defended, the knight behind it is not
C18_Witness ==
    /\ query.op = "tip"
    /\ ~query.board.is_check /\ ~query.board.giving_check
    /\ query.last_move.played_by = "white"
    /\ HangingIndices(query.board) = {2}
    /\ query.board.pieces[1].color = "white"
    /\ query.board.pieces[1].attacked_by_black
    /\ EndsWith(query.result, DangerWarning(query.board.pieces[2]))

\* a piece hangs after a move of Black and nothing is appended
C18_BlackMoved ==
    /\ query.op = "tip"
    /\ ~query.board.is_check /\ ~query.board.giving_check
    /\ query.last_move.played_by = "black"
    /\ HangingIndices(query.board) # {}
    /\ EndsWith(query.result, "")

\* the boards that differ from this one in anything but the pieces listed
BoardVariants(board) ==
    {[board EXCEPT !.piece_count = n, !.is_check = c, !.giving_check = g] :
        n \in TipPieceCounts, c \in BOOLEAN, g \in BOOLEAN}
    \cup {[board EXCEPT !.pieces = ps] : ps \in TipPieceLists}

\* C19: within a phase the base tip depends on move_count only: any board
\* and last move that give the same phase at the same move_count give the
\* same base tip, which is the tip at index md5(move_count) modulo the length
\* of the phase's list, an index of that list.
C19_BaseTipByMoveCount ==
    query.op = "tip" =>
        LET tips == tip_list(query.phase)
        IN  /\ query.tip_idx \in 0..(Len(tips) - 1)
            /\ query.tip_idx = Md5Mod40[query.move_count + 1] % Len(tips)
            /\ query.base = tips[query.tip_idx + 1]
            /\ \A other \in BoardVariants(query.board) :
                   tip_phase(other, query.move_count) = query.phase =>
                       tip_base(other, query.move_count) = query.base

\* a middlegame at move 16: the hash gives index 7 of 8
C19_Witness ==
    /\ query.op = "tip"
    /\ query.move_count = 16
    /\ query.phase = "Middlegame"
    /\ query.tip_idx = 7
    /\ query.base = MIDDLEGAME_TIPS[8]

\* C21: for every GameReport, the empty one included, summary_stats returns
\* a mapping with exactly the keys total_player_moves, blunders, mistakes,
\* inaccuracies, accuracy, and the three tier counts plus the number of Best
\* or Good player moves make total_player_moves.
C21_SummaryStatsKeys ==
    query.op = "summary_stats" =>
        LET stats == query.result
            good  == PlayerTier(report, "Best") \cup PlayerTier(report, "Good")
        IN  /\ DOMAIN stats = {"total_player_moves", "blunders", "mistakes",
                               "inaccuracies", "accuracy"}
            /\ stats.total_player_moves = Cardinality(PlayerIndices(report))
            /\ stats.blunders + stats.mistakes + stats.inaccuracies + Cardinality(good)
                   = stats.total_player_moves

\* a report with a player move in a counted tier and one that is Good
C21_Witness ==
    /\ query.op = "summary_stats"
    /\ query.result.inaccuracies = 1
    /\ PlayerTier(report, "Good") # {}
    /\ query.result.total_player_moves = 2

\* the empty report
C21_EmptyReport ==
    /\ query.op = "summary_stats"
    /\ report.evaluated_moves = <<>>
    /\ query.result.total_player_moves = 0

\* C22: every record's move_number is the full-move number of its move: the
\* k-th move of White and the k-th move of Black both carry k, for a human
\* playing White and for a human playing Black.
C22_MoveNumberIsFullMove ==
    \A i \in DOMAIN gl.move_history :
        /\ gl.move_history[i].move_number = ((i - 1) \div 2) + 1
        /\ gl.move_history[i].move_number = gl.move_history[i].fen_before.fullmove

\* the mate is White's
FavoursWhite(score) == score.value > 0 \/ score.given

\* the sentinel with the sign of the winning side
Sentinel(score) == IF FavoursWhite(score) THEN 10000 ELSE -10000

\* C23: a forced mate is evaluated +10000 when it favours White and -10000
\* when it favours Black, mate distance 0 included, so the move that
\* delivers checkmate never has a negative score_delta for its mover.
C23_MateSentinelSign ==
    query.op = "analyse_game" =>
        /\ query.before.kind = "mate" => query.eval_before = Sentinel(query.before)
        /\ query.after.kind = "mate" => query.eval_after = Sentinel(query.after)
        /\ query.checkmates => query.score_delta >= 0

\* C24: an EngineManager can be constructed with an elo: 400 and 1500 are
\* stored unchanged, 9999 is stored as the class's ELO_MAX, and the strength
\* chosen on the bot-settings slider is applied through set_elo.
C24_EloStrength ==
    /\ (query.op = "EngineManager" /\ query.keyword = "elo" /\ query.isfile) =>
           /\ ~query.result.raised
           /\ "elo" \in DOMAIN query.result.value
           /\ "ELO_MAX" \in ClassNames
           /\ query.arg \in {400, 1500} => query.result.value.elo = query.arg
           /\ query.result.value.elo <= query.arg
    /\ query.op = "set_elo" => ~query.result.raised

\* every record was played by the side to move before it, and no two
\* consecutive records are of the same side
TurnsAlternate(history) ==
    /\ \A i \in DOMAIN history : history[i].played_by = history[i].fen_before.turn
    /\ \A i \in 1..(Len(history) - 1) : history[i].played_by # history[i + 1].played_by

\* C25: in every state reached through GameLoop operations each record's
\* played_by is the side to move in its fen_before and consecutive records
\* alternate; apply_player_move records only in a started game on the
\* player's turn, with the player's colour, and apply_bot_move only in a
\* started game on the bot's turn, with the other colour.
C25_TurnDiscipline ==
    [][/\ TurnsAlternate(gl'.move_history)
       /\ (ret'.op = "apply_player_move"
               /\ Len(gl'.move_history) > Len(gl.move_history)) =>
              /\ gl.started
              /\ Turn(gl.board) = gl.player_color
              /\ gl'.move_history[Len(gl'.move_history)].played_by = gl.player_color
       /\ (ret'.op = "apply_bot_move"
               /\ Len(gl'.move_history) > Len(gl.move_history)) =>
              /\ gl.started
              /\ Turn(gl.board) # gl.player_color
              /\ gl'.move_history[Len(gl'.move_history)].played_by # gl.player_color
       /\ (ret'.op \in {"apply_player_move", "apply_bot_move"} /\ ~gl.started) =>
              gl'.move_history = gl.move_history
      ]_vars

\* the bot opened, the human answered as Black, the bot moved again
C25_Witness ==
    /\ gl.player_color = "black"
    /\ Len(gl.move_history) = 3
    /\ ret.op = "apply_bot_move"
    /\ ret.value # "None"
    /\ gl.move_history[3].played_by = "white"

\* C26: once is_over is true, also when legal moves still exist, no
\* apply_player_move or apply_bot_move appends a record: the history stays
\* as it is until new_game is called.
C26_NoRecordAfterGameOver ==
    [][(is_over(gl) /\ ret'.op \in {"apply_player_move", "apply_bot_move"}) =>
           gl'.move_history = gl.move_history]_vars

\* the members of a sequence
Range(seq) == {seq[k] : k \in DOMAIN seq}

\* C27: every move returned by get_critical_moments and every move counted
\* as inaccuracy, mistake or blunder has score_delta < 0; a player move
\* with a positive score_delta is never a Mistake or a Blunder and is one
\* of the moves accuracy_percentage counts as accurate.
C27_CriticalMomentsAreLosses ==
    /\ query.op = "get_critical_moments" =>
           \A m \in Range(query.result) : m.score_delta < 0
    /\ query.op = "summary_stats" =>
           \A m \in Range(inaccuracies(report)) \cup Range(mistakes(report))
                        \cup Range(blunders(report)) : m.score_delta < 0
    /\ query.op = "accuracy_percentage" =>
           \A m \in Range(player_moves(report)) :
               m.score_delta > 0 =>
                   /\ classification(m.score_delta) \notin {"Mistake", "Blunder"}
                   /\ m \in Range(AccurateMoves(report))

\* the analysis run is over and the main thread has run every slot queued
AnalysisSettled ==
    /\ worker.pc \in {"done", "error"}
    /\ signals.pending = <<>>

\* C28: a post-game analysis that was started ends with exactly one of the
\* signals finished and error; once its slots have run, the coaching panel
\* is no longer loading and the analysis thread has been asked to quit, on
\* the error path as on the success path.
C28_AnalysisCompletes ==
    AnalysisSettled =>
        /\ signals.finished + signals.error = 1
        /\ ~signals.loading
        /\ signals.quit >= 1

\* C29: the move list analysed and the outcome text given to
\* generate_game_summary are those of the game that had ended when the
\* analysis was started, also when a new game is started meanwhile.
C29_OneFinishedGame ==
    worker.pc = "done" =>
        /\ worker.move_history = query.move_history
        /\ report.total_moves = Len(query.move_history)
        /\ worker.outcome = query.outcome

\* C30: over any sequence of generate calls on one OllamaBackend, however
\* many of them meet a connection error, the pull-and-serve thread is
\* started at most once, at the first such call, and every such call
\* returns None.
C30_AutoStartOnce ==
    /\ app.threads <= 1
    /\ app.threads = (IF app.connection_errors > 0 THEN 1 ELSE 0)
    /\ coach.ollama_start_attempted <=> app.connection_errors > 0
    /\ (query.op = "generate" /\ query.reply.kind = "ConnectionError") =>
           query.result = Returned(None)

\* several calls were refused the connection, the last one too
C30_Witness ==
    /\ app.connection_errors >= 2
    /\ app.threads = 1
    /\ query.op = "generate"
    /\ query.reply.kind = "ConnectionError"
    /\ query.result = Returned(None)

====
